---- MODULE Spec2Model ----
(***************************************************************************)
(* Provider routing and credential failover of the AI model gateway.       *)
(*                                                                         *)
(* The model covers the credential table user_provider_keys of one         *)
(* (owner, provider), the activity log provider_key_logs, the rotation     *)
(* function attempt_automatic_failover and the failover loops of           *)
(* ModelRouter (route_chat_completion, stream_chat_completion,             *)
(* route_vision_extraction) together with the error mapping and the SSE    *)
(* framing of the four provider adapters.                                  *)
(*                                                                         *)
(* Credential ids are 1..n in creation order, so ORDER BY created_at is    *)
(* the order of the ids.  Time is counted in minutes.                      *)
(***************************************************************************)
EXTENDS Integers, Sequences, FiniteSets, TLC

\* ---------------------------------------------------------------- bounds
NumKeys == 3      \* most credentials one (owner, provider) holds
MaxTime == 1      \* last instant of the modelled clock
MaxChunks == 1    \* most content chunks one upstream stream delivers
MaxTokens == 2    \* most tokens of a model identifier
MaxMessages == 3  \* most messages of a request
MaxPromptMessages == 1  \* most messages of a request that runs the failover loop

\* ------------------------------------------------------ program constants
DISABLE_DURATION_MINUTES == 5
None == 0         \* Python None / SQL NULL

KeyIds == 1..NumKeys
Reqs == {1, 2}
Providers == {"google", "xai", "gigachat", "perplexity"}
Modes == {"chat", "stream", "vision"}

\* what the upstream answers to one call: an HTTP status (200 = success)
RawStatus == {200, 400, 401, 403, 429, 503}

VARIABLES
    provider,        \* provider_key_name of the requests
    keys,            \* ids of the rows of user_provider_keys for (owner, provider)
    is_selected,     \* row field
    disabled_until,  \* row field, None or a time
    now,             \* wall clock
    log,             \* rows of provider_key_logs, oldest first
    mode,            \* per request: which router entry point serves it
    hdr,             \* per request: provider_api_keys holds a secret for the provider
    pc,              \* per request: control position
    initial_key_id,  \* per request
    current_key_id,  \* per request
    current_api_key, \* per request: which secret is held
    tried_key_ids,   \* per request
    calls,           \* per request: upstream calls made, oldest first
    rotations,       \* per request: invocations of attempt_automatic_failover
    out,             \* per request: SSE events yielded to the client
    result,          \* per request: how the router call ended
    start,           \* per request: disabled_until and the clock when it began
    model,           \* the model identifier the client sent, as a token sequence
    base_model_name, \* the identifier without its provider prefix
    messages,        \* the message list the client sent
    prompt,          \* _convert_messages: the prompt, a string (sequence of characters)
    history,         \* _convert_messages: the history
    new_key_info,    \* per request: the id rotation is switching to, between its two updates
    others           \* ids of the rows of user_provider_keys of other owners or providers

vars == <<provider, keys, is_selected, disabled_until, now, log, mode, hdr, pc,
          initial_key_id, current_key_id, current_api_key, tried_key_ids,
          calls, rotations, out, result, start,
          model, base_model_name, messages, prompt, history, new_key_info,
          others>>

argvars == <<model, base_model_name, messages, prompt, history, new_key_info,
             others>>

store == <<keys, is_selected, disabled_until>>
reqvars == <<initial_key_id, current_key_id, current_api_key, tried_key_ids,
             calls, rotations, out, result, start>>

\* ------------------------------------------------------------- secrets
NoSecret == [src |-> "none", id |-> None]
HeaderSecret == [src |-> "header", id |-> None]
RowSecret(k) == [src |-> "row", id |-> k]

\* ------------------------------------------------------------- helpers
RECURSIVE SortedSeq(_)
SortedSeq(S) ==
    IF S = {} THEN <<>>
    ELSE LET m == CHOOSE x \in S : \A y \in S : x <= y
         IN <<m>> \o SortedSeq(S \ {m})

IndexOf(seq, x) == CHOOSE i \in 1..Len(seq) : seq[i] = x

Pending == [kind |-> "pending", status |-> None, key |-> None]
Cancelled == [kind |-> "cancelled", status |-> None, key |-> None]

\* ------------------------------------------------ failover_utils.py
\* the rows ordered by created_at (line 84-88)
all_key_ids == SortedSeq(keys)

\* variant of quarantine that disables the failed row after any error
quarantine_AnyError(failed_key_id, error_code) ==
    IF failed_key_id \in keys \cup others
    THEN [disabled_until EXCEPT ![failed_key_id] = now + DISABLE_DURATION_MINUTES]
    ELSE disabled_until

\* step 1: a 429 writes disabled_until = now + 5 minutes on the failed row;
\* the UPDATE ... WHERE id = failed names no owner and no provider, and
\* touches no row when the id does not exist
quarantine(failed_key_id, error_code) ==
    IF error_code = 429 /\ failed_key_id \in keys \cup others
    THEN [disabled_until EXCEPT ![failed_key_id] = now + DISABLE_DURATION_MINUTES]
    ELSE disabled_until

\* step 2: the rows with disabled_until IS NULL (the "<= now" filter is
\* commented out in the source)
truly_available_keys(dis) == {k \in keys : dis[k] = None}

\* the cyclic walk over all_key_ids starting right after the failed index
next_index(failed_key_index, i) == ((failed_key_index - 1 + i) % Len(all_key_ids)) + 1

\* variant of found_next_key whose walk starts at the failed index itself
found_next_key_FromFailed(failed_key_id, avail) ==
    IF failed_key_id \in avail THEN failed_key_id
    ELSE LET failed_key_index == IndexOf(all_key_ids, failed_key_id)
             hits == {i \in 1..Len(all_key_ids) :
                         all_key_ids[next_index(failed_key_index, i)] \in avail}
         IN IF hits = {} THEN None
            ELSE LET first == CHOOSE i \in hits : \A j \in hits : i <= j
                 IN all_key_ids[next_index(failed_key_index, first)]

\* step 2: the first id of all_key_ids after the failed one, going round,
\* that is among the available rows
found_next_key(failed_key_id, avail) ==
    LET failed_key_index == IndexOf(all_key_ids, failed_key_id)
        hits == {i \in 1..Len(all_key_ids) :
                    all_key_ids[next_index(failed_key_index, i)] \in avail}
    IN IF hits = {} THEN None
       ELSE LET first == CHOOSE i \in hits : \A j \in hits : i <= j
            IN all_key_ids[next_index(failed_key_index, first)]

LogRow(action, key_id) == [action |-> action, key_id |-> key_id]

NoSwitch(dis, rows) ==
    [ret |-> None, sel |-> is_selected, dis |-> dis, rows |-> rows]

\* variant of switch_selected that leaves the failed row selected
switch_selected_KeepFailed(failed_key_id, next_key_id) ==
    [is_selected EXCEPT ![next_key_id] = TRUE]

\* step 4: two updates, is_selected = False on the failed row and then
\* is_selected = True on the next one; execute() is synchronous, so no other
\* request runs between them
switch_selected(failed_key_id, next_key_id) ==
    [[is_selected EXCEPT ![failed_key_id] = FALSE] EXCEPT ![next_key_id] = TRUE]

\* the database client a router entry point is given: the vision route
\* injects the PostgresCompatClient of db.py, the chat routes the Supabase
\* client
ClientOf(m) == IF m = "vision" THEN "postgres" ELSE "supabase"

\* variant of attempt_automatic_failover that records the switch with the
\* SELECT row only
attempt_automatic_failover_SelectOnly(failed_key_id, error_code, supabase) ==
    LET dis == quarantine(failed_key_id, error_code)
        avail == truly_available_keys(dis)
    IN IF keys = {} THEN NoSwitch(dis, <<>>)
       ELSE IF failed_key_id \notin keys THEN NoSwitch(dis, <<>>)
       ELSE IF supabase = "postgres" THEN NoSwitch(dis, <<>>)
       ELSE IF avail = {} \/ avail = {failed_key_id}
            THEN NoSwitch(dis, <<LogRow("FAILOVER_EXHAUSTED", failed_key_id)>>)
       ELSE LET next_key_id == found_next_key(failed_key_id, avail)
            IN IF next_key_id = None
               THEN NoSwitch(dis, <<LogRow("FAILOVER_EXHAUSTED", failed_key_id)>>)
               ELSE [ret |-> next_key_id,
                     sel |-> switch_selected(failed_key_id, next_key_id),
                     dis |-> dis,
                     rows |-> <<LogRow("SELECT", next_key_id)>>]

\* the whole function: what it returns, the table after it and the log rows
\* it inserts.  failed_key_id may be an id that is no row (the synthetic
\* "no-key-yet-..." marker is modelled as None).  TableQuery of db.py has no
\* method is_, so with that client the query for the available rows raises
\* AttributeError, which the except clause of step 2 turns into None.
attempt_automatic_failover(failed_key_id, error_code, supabase) ==
    LET dis == quarantine(failed_key_id, error_code)
        avail == truly_available_keys(dis)
    IN IF keys = {} THEN NoSwitch(dis, <<>>)
       ELSE IF failed_key_id \notin keys THEN NoSwitch(dis, <<>>)
       ELSE IF supabase = "postgres" THEN NoSwitch(dis, <<>>)
       ELSE IF avail = {} \/ avail = {failed_key_id}
            THEN NoSwitch(dis, <<LogRow("FAILOVER_EXHAUSTED", failed_key_id)>>)
       ELSE LET next_key_id == found_next_key(failed_key_id, avail)
            IN IF next_key_id = None
               THEN NoSwitch(dis, <<LogRow("FAILOVER_EXHAUSTED", failed_key_id)>>)
               ELSE [ret |-> next_key_id,
                     sel |-> switch_selected(failed_key_id, next_key_id),
                     dis |-> dis,
                     rows |-> <<LogRow("UNSELECT", failed_key_id),
                                LogRow("SELECT", next_key_id)>>]

\* ------------------------------------------------ provider adapters
HttpAdapters == {"xai", "gigachat", "perplexity"}

\* variant of AdapterStatus in which the Gemini adapter reports every
\* rejected request as an invalid key
AdapterStatus_400As401(prov, m, raw, chunks) ==
    IF prov = "google"
    THEN IF raw \in {401, 403, 429} THEN raw
         ELSE IF raw = 400 THEN 401 ELSE 500
    ELSE IF m # "stream"
    THEN IF raw \in {400, 401, 429} THEN raw ELSE 502
    ELSE IF prov = "xai" THEN raw
    ELSE IF prov = "gigachat" THEN (IF chunks > 0 THEN 500 ELSE raw)
    ELSE (IF chunks > 0 THEN 503 ELSE 500)

\* the status of the HTTPException an adapter raises for an upstream failure
\* (raw # 200); chunks > 0 means the failure came after that many content
\* chunks, which for the HTTP adapters is a transport failure
AdapterStatus(prov, m, raw, chunks) ==
    IF prov = "google"
    THEN IF raw \in {400, 401, 403, 429} THEN raw ELSE 500
    ELSE IF m # "stream"
    THEN IF raw \in {400, 401, 429} THEN raw ELSE 502
    ELSE IF prov = "xai" THEN raw
    ELSE IF prov = "gigachat" THEN (IF chunks > 0 THEN 500 ELSE raw)
    ELSE (IF chunks > 0 THEN 503 ELSE 500)

\* the outcomes an upstream can produce for one call.  Credentials are
\* checked before the first chunk; after content the stream either completes,
\* loses the connection (503) or, for the Gemini SDK, runs out of quota (429).
\* usage: a completed upstream stream carried token usage data.
Outcomes(prov, m) ==
    {o \in [status : RawStatus, chunks : 0..MaxChunks, usage : BOOLEAN] :
        /\ (m # "stream" => o.chunks = 0)
        /\ (o.usage => (m = "stream" /\ o.status = 200))
        /\ (o.chunks > 0 /\ prov \in HttpAdapters => o.status \in {200, 503})
        /\ (o.chunks > 0 /\ prov = "google" => o.status \in {200, 429, 503})}

Ev(type, key_id, role, code) ==
    [type |-> type, key |-> key_id, role |-> role, code |-> code]

RECURSIVE ContentEvents(_, _, _)
ContentEvents(key_id, n, first_chunk) ==
    IF n = 0 THEN <<>>
    ELSE <<Ev("content", key_id, first_chunk, None)>>
            \o ContentEvents(key_id, n - 1, FALSE)

\* the SSE events the adapter's stream yields for one attempt, before the
\* router adds anything, for an upstream that puts no role in its deltas.
\* role: the chunk's delta carries role "assistant".  The Gemini wrapper and
\* the Grok and GigaChat adapters add it to the first chunk they build (which
\* is the finish chunk when the upstream sent no content); SonarService
\* forwards the upstream's lines as they are.  GrokService adds a chunk with
\* finish_reason "stop" of its own when it has seen usage data by the time
\* the upstream sentinel arrives, after having passed the upstream's finish
\* chunk through.
AdapterEvents(prov, key_id, o) ==
    LET content == ContentEvents(key_id, o.chunks, prov # "perplexity")
        finish == <<Ev("finish", key_id, FALSE, None)>>
        first_finish == <<Ev("finish", key_id,
                             prov \in {"xai", "gigachat"} /\ o.chunks = 0,
                             None)>>
        done == <<Ev("done", key_id, FALSE, None)>>
    IN IF o.status # 200 THEN content
       ELSE IF prov = "google" THEN content \o first_finish
       ELSE IF prov = "perplexity" THEN content \o first_finish \o done
       ELSE IF prov = "xai" /\ o.usage
            THEN content \o first_finish \o finish \o done \o done
       ELSE content \o first_finish \o done \o done

\* ------------------------------------------------ model_router.py
\* variant of is_key_error that also takes 503 for a key error
is_key_error_With503(prov, error_code) ==
    \/ error_code \in {401, 403, 429, 503}
    \/ (prov = "xai" /\ error_code = 400)

is_key_error(prov, error_code) ==
    \/ error_code \in {401, 403, 429}
    \/ (prov = "xai" /\ error_code = 400)

final_error_code(error_code) == IF error_code # 500 THEN error_code ELSE 503

RouterDone == Ev("done", None, FALSE, None)
ErrorEvent(code) == Ev("error", None, FALSE, code)

HttpError(status) == [kind |-> "http_error", status |-> status, key |-> None]
Success(key_id) == [kind |-> "success", status |-> 200, key |-> key_id]
Unhandled == [kind |-> "exception", status |-> None, key |-> None]

\* variant of response_payload that leaves the upstream's native model name
\* in the answer
response_payload_NativeName(m, key_id, original, native) ==
    IF m = "chat" THEN Success(key_id) @@ [model |-> native]
    ELSE Success(key_id)

\* what a successful call returns.  For a chat completion it is the
\* response payload, whose "model" the router sets to original_model_name
\* (for Gemini the router builds the payload, for the others it overwrites
\* the field of the upstream's answer, which names the native model).
response_payload(m, key_id, original, native) ==
    IF m = "chat" THEN Success(key_id) @@ [model |-> original]
    ELSE Success(key_id)

\* the entry points a provider has: vision exists for google and xai only
\* (provider_map of route_vision_extraction)
ModesOf(prov) == IF prov \in {"google", "xai"} THEN Modes ELSE Modes \ {"vision"}

Streams(r) == mode[r] = "stream"

\* ------------------------------------------------ provider resolution
\* A model identifier is a sequence of tokens: a provider prefix, a
\* model-family name (in lower or upper case) or any other text.  No prefix
\* holds a family name and no family name holds another.
Prefixes == {"google/", "x-ai/", "sber/", "perplexity/"}
Families == {"gemini", "grok", "gigachat", "sonar", "r1-1776"}
Tokens == Prefixes \cup Families \cup {"GROK", "other"}
ModelIds == UNION {[1..n -> Tokens] : n \in 0..MaxTokens}

\* str.lower() on a token
lower(t) == IF t = "GROK" THEN "grok" ELSE t

\* model.startswith(p) and  f in model.lower()
startswith(m, p) == Len(m) > 0 /\ m[1] = p
contains_lower(m, f) == \E i \in DOMAIN m : lower(m[i]) = f

\* re.sub(r"^(google|x-ai|sber|perplexity)/", "", model_id)
strip_provider_prefix(model_id) ==
    IF Len(model_id) > 0 /\ model_id[1] \in Prefixes THEN Tail(model_id)
    ELSE model_id

Resolved(name) == [ok |-> TRUE, name |-> name, status |-> 200]
Raises(status) == [ok |-> FALSE, name |-> "", status |-> status]

\* variant of determine_provider that falls back to google for a model it
\* does not know
determine_provider_DefaultGoogle(m) ==
    IF m = <<>> THEN Raises(400)
    ELSE IF startswith(m, "google/") \/ contains_lower(m, "gemini")
    THEN Resolved("google")
    ELSE IF startswith(m, "x-ai/") \/ contains_lower(m, "grok")
    THEN Resolved("x-ai")
    ELSE IF startswith(m, "sber/") \/ contains_lower(m, "gigachat")
    THEN Resolved("gigachat")
    ELSE IF \/ startswith(m, "perplexity/")
            \/ contains_lower(m, "sonar")
            \/ contains_lower(m, "r1-1776")
    THEN Resolved("perplexity")
    ELSE Resolved("google")

\* _determine_provider: the tests in the order of the code
determine_provider(m) ==
    IF m = <<>> THEN Raises(400)
    ELSE IF startswith(m, "google/") \/ contains_lower(m, "gemini")
    THEN Resolved("google")
    ELSE IF startswith(m, "x-ai/") \/ contains_lower(m, "grok")
    THEN Resolved("x-ai")
    ELSE IF startswith(m, "sber/") \/ contains_lower(m, "gigachat")
    THEN Resolved("gigachat")
    ELSE IF \/ startswith(m, "perplexity/")
            \/ contains_lower(m, "sonar")
            \/ contains_lower(m, "r1-1776")
    THEN Resolved("perplexity")
    ELSE Raises(404)

\* provider_map.get(provider_name) of the entry point; "" when the name is
\* no key of the map
provider_map(m, provider_name) ==
    IF provider_name = "google" THEN "google"
    ELSE IF provider_name = "x-ai" THEN "xai"
    ELSE IF m = "vision" THEN ""
    ELSE provider_name

\* an identifier of the provider, with its prefix
ModelFor(prov) ==
    IF prov = "google" THEN <<"google/", "gemini">>
    ELSE IF prov = "xai" THEN <<"x-ai/", "grok">>
    ELSE IF prov = "gigachat" THEN <<"sber/", "gigachat">>
    ELSE <<"perplexity/", "sonar">>

original_model_name == model

\* ------------------------------------------------ message normalisation
\* A string is the sequence of its characters, so that f-string and join
\* concatenation is \o and the empty string is <<>>.
Texts == {<<>>, <<"a">>, <<"b">>}

\* the roles a message dict may carry; "" stands for a missing or empty role
Roles == {"system", "user", "assistant", ""}

\* the content of a message: a str, a list of parts (parts holds the text of
\* its parts of type "text", other parts carry none), or anything else
Contents ==
    {[type |-> "str", parts |-> <<t>>] : t \in Texts}
    \cup {[type |-> "list", parts |-> ps] : ps \in {<<>>, << <<"a">>, <<"b">> >>}}
    \cup {[type |-> "other", parts |-> <<>>]}

Messages == [role : Roles, content : Contents]
MessageLists == UNION {[1..n -> Messages] : n \in 0..MaxMessages}
OneUserMessage == [role |-> "user", content |-> [type |-> "str", parts |-> <<<<"a">>>>]]

\* "\n".join(text_parts)
RECURSIVE join(_)
join(text_parts) ==
    IF text_parts = <<>> THEN <<>>
    ELSE IF Len(text_parts) = 1 THEN text_parts[1]
    ELSE text_parts[1] \o <<"\n">> \o join(Tail(text_parts))

\* extracted_text of one message; ok = FALSE is Python None
extracted_text(content) ==
    IF content.type = "str"
    THEN [ok |-> TRUE, text |-> content.parts[1]]
    ELSE IF content.type = "list" /\ content.parts # <<>>
    THEN [ok |-> TRUE, text |-> join(content.parts)]
    ELSE [ok |-> FALSE, text |-> <<>>]

\* the first loop: the messages with a role and extractable text, from
\* index i on, each with its original_index
RECURSIVE processed_from(_, _)
processed_from(msgs, i) ==
    IF i > Len(msgs) THEN <<>>
    ELSE LET msg == msgs[i]
             t == extracted_text(msg.content)
         IN IF msg.role = "" \/ ~t.ok
            THEN processed_from(msgs, i + 1)
            ELSE <<[role |-> msg.role, content |-> t.text, original_index |-> i]>>
                 \o processed_from(msgs, i + 1)

processed_messages(msgs) == processed_from(msgs, 1)

\* position in pm of the system message the code takes, 0 when there is none
system_message_index_LastWins(pm) ==
    LET S == {i \in DOMAIN pm : pm[i].role = "system"}
    IN IF S = {} THEN 0 ELSE CHOOSE i \in S : \A j \in S : j <= i

system_message_index(pm) ==
    LET S == {i \in DOMAIN pm : pm[i].role = "system"}
    IN IF S = {} THEN 0 ELSE CHOOSE i \in S : \A j \in S : i <= j

\* position in pm of the last user message, 0 when there is none
last_user_message_index(pm) ==
    LET U == {i \in DOMAIN pm : pm[i].role = "user"}
    IN IF U = {} THEN 0 ELSE CHOOSE i \in U : \A j \in U : j <= i

\* "assistant" -> "model"
gemini_role(role) == IF role = "user" THEN "user" ELSE "model"

\* the loop that drops a message whose role is that of the last one kept
RECURSIVE final_from(_, _)
final_from(h, last_role) ==
    IF h = <<>> THEN <<>>
    ELSE IF Head(h).role # last_role
    THEN <<Head(h)>> \o final_from(Tail(h), Head(h).role)
    ELSE final_from(Tail(h), last_role)

final_history_KeepAll(h) == h

final_history(h) == final_from(h, "")

convert_messages(msgs) ==
    LET pm == processed_messages(msgs)
        s == system_message_index(pm)
        u == last_user_message_index(pm)
        processed_indices ==
            (IF s # 0 THEN {pm[s].original_index} ELSE {})
            \cup (IF u # 0 THEN {pm[u].original_index} ELSE {})
        rest == SelectSeq(pm, LAMBDA msg :
                    /\ msg.original_index \notin processed_indices
                    /\ msg.role # "system")
        hist == [i \in DOMAIN rest |->
                    [role |-> gemini_role(rest[i].role),
                     content |-> rest[i].content]]
    IN IF msgs = <<>> \/ pm = <<>> \/ u = 0
       THEN [prompt |-> <<>>, history |-> <<>>]
       ELSE [prompt |-> IF s # 0 /\ pm[s].content # <<>>
                        THEN pm[s].content \o <<"\n", "\n">> \o pm[u].content
                        ELSE pm[u].content,
             history |-> final_history(hist)]

\* ------------------------------------------------ initial states
\* Any table the key management and earlier failovers can leave behind: rows
\* 1..n, at most one of them selected, each either never quarantined or
\* quarantined until MaxTime.  Request 1 is about to run; request 2 is off.
Init ==
    /\ provider \in Providers
    /\ keys \in {1..n : n \in 0..NumKeys}
    /\ is_selected \in [KeyIds -> BOOLEAN]
    /\ \A k \in KeyIds : is_selected[k] => k \in keys
    /\ Cardinality({k \in KeyIds : is_selected[k]}) <= 1
    /\ disabled_until \in [KeyIds -> {None, MaxTime}]
    /\ \A k \in KeyIds : disabled_until[k] # None => k \in keys
    /\ now = 0
    /\ log = <<>>
    /\ mode \in [Reqs -> ModesOf(provider)]
    /\ mode[2] = "chat"
    /\ hdr \in [Reqs -> BOOLEAN]
    /\ hdr[2] = FALSE
    /\ pc = [r \in Reqs |-> IF r = 1 THEN "start" ELSE "off"]
    /\ initial_key_id = [r \in Reqs |-> None]
    /\ current_key_id = [r \in Reqs |-> None]
    /\ current_api_key = [r \in Reqs |-> NoSecret]
    /\ tried_key_ids = [r \in Reqs |-> {}]
    /\ calls = [r \in Reqs |-> <<>>]
    /\ rotations = [r \in Reqs |-> 0]
    /\ out = [r \in Reqs |-> <<>>]
    /\ result = [r \in Reqs |-> Pending]
    /\ start = [r \in Reqs |-> [dis |-> disabled_until, now |-> now]]
    /\ model = ModelFor(provider)
    /\ base_model_name = strip_provider_prefix(model)
    /\ messages = <<OneUserMessage>>
    /\ prompt = <<>>
    /\ history = <<>>
    /\ new_key_info = [r \in Reqs |-> None]
    /\ others = {}

\* ------------------------------------------------ actions
\* the clock advances.  Time is counted in minutes and a request is served
\* within one, so the clock moves only while no request is inside its loop.
Tick ==
    /\ now < MaxTime
    /\ \A r \in Reqs : pc[r] \in {"off", "start"}
    /\ now' = now + 1
    /\ UNCHANGED <<provider, store, log, mode, hdr, pc, reqvars>>
    /\ UNCHANGED argvars

\* variant of initial_key_query without the filters on user_id and
\* provider_name
initial_key_query_AnyOwner == {k \in keys \cup others : is_selected[k]}

\* the rows the lookup before the loop matches: user_id and provider_name of
\* the request and is_selected
initial_key_query == {k \in keys : is_selected[k]}

\* variant of FetchInitialKey that forgets to put the initial id into
\* tried_key_ids
FetchInitialKey_NotTried(r) ==
    /\ pc[r] = "start"
    /\ \E k \in {None} \cup initial_key_query :
        /\ IF initial_key_query # {} THEN k # None ELSE k = None
        /\ initial_key_id' = [initial_key_id EXCEPT ![r] = k]
        /\ current_key_id' = [current_key_id EXCEPT ![r] = k]
        /\ tried_key_ids' = [tried_key_ids EXCEPT ![r] = {}]
        /\ current_api_key' = [current_api_key EXCEPT ![r] =
                IF hdr[r] THEN HeaderSecret
                ELSE IF k # None THEN RowSecret(k) ELSE NoSecret]
    /\ start' = [start EXCEPT ![r] = [dis |-> disabled_until, now |-> now]]
    /\ pc' = [pc EXCEPT ![r] = "loop"]
    /\ UNCHANGED <<provider, store, now, log, mode, hdr, calls, rotations, out, result>>
    /\ UNCHANGED argvars

\* the code before the loop: read the selected row (LIMIT 1 of the rows with
\* is_selected), take the secret from provider_api_keys or decrypt the row's
FetchInitialKey(r) ==
    /\ pc[r] = "start"
    /\ \E k \in {None} \cup initial_key_query :
        /\ IF initial_key_query # {} THEN k # None ELSE k = None
        /\ initial_key_id' = [initial_key_id EXCEPT ![r] = k]
        /\ current_key_id' = [current_key_id EXCEPT ![r] = k]
        /\ tried_key_ids' = [tried_key_ids EXCEPT ![r] = IF k = None THEN {} ELSE {k}]
        /\ current_api_key' = [current_api_key EXCEPT ![r] =
                IF hdr[r] THEN HeaderSecret
                ELSE IF k # None THEN RowSecret(k) ELSE NoSecret]
    /\ start' = [start EXCEPT ![r] = [dis |-> disabled_until, now |-> now]]
    /\ pc' = [pc EXCEPT ![r] = "loop"]
    /\ UNCHANGED <<provider, store, now, log, mode, hdr, calls, rotations, out, result>>
    /\ UNCHANGED argvars

\* how the router ends with an HTTP error: raised for chat and vision, one
\* error event and the sentinel for a stream
EndWithError(r, status, events) ==
    /\ result' = [result EXCEPT ![r] = HttpError(status)]
    /\ out' = [out EXCEPT ![r] =
                 IF Streams(r) THEN events \o <<ErrorEvent(status), RouterDone>>
                 ELSE events]
    /\ pc' = [pc EXCEPT ![r] = "done"]

\* variant of AfterSwitch without the "already tried" test
AfterSwitch_NoCycleCheck(r, fo, events) ==
    /\ current_key_id' = [current_key_id EXCEPT ![r] = fo.ret]
    /\ current_api_key' = [current_api_key EXCEPT ![r] = RowSecret(fo.ret)]
    /\ tried_key_ids' = [tried_key_ids EXCEPT ![r] = @ \cup {fo.ret}]
    /\ out' = [out EXCEPT ![r] = events]
    /\ pc' = [pc EXCEPT ![r] = "loop"]
    /\ UNCHANGED result

\* what follows a call of attempt_automatic_failover that returned a key
AfterSwitch(r, fo, events) ==
    IF fo.ret \in tried_key_ids[r]
    THEN /\ EndWithError(r, 503, events)
         /\ UNCHANGED <<current_key_id, current_api_key, tried_key_ids>>
    ELSE /\ current_key_id' = [current_key_id EXCEPT ![r] = fo.ret]
         /\ current_api_key' = [current_api_key EXCEPT ![r] = RowSecret(fo.ret)]
         /\ tried_key_ids' = [tried_key_ids EXCEPT ![r] = @ \cup {fo.ret}]
         /\ out' = [out EXCEPT ![r] = events]
         /\ pc' = [pc EXCEPT ![r] = "loop"]
         /\ UNCHANGED result

\* variant of RotateAtLoopHead that reports a failed rotation as 400
RotateAtLoopHead_400(r) ==
    /\ pc[r] = "loop"
    /\ current_api_key[r] = NoSecret \/ current_key_id[r] = None
    /\ LET fo == attempt_automatic_failover(current_key_id[r], 400, ClientOf(mode[r]))
       IN /\ is_selected' = fo.sel
          /\ disabled_until' = fo.dis
          /\ log' = log \o fo.rows
          /\ rotations' = [rotations EXCEPT ![r] = @ + 1]
          /\ IF fo.ret # None
             THEN AfterSwitch(r, fo, out[r])
             ELSE /\ EndWithError(r, 400, out[r])
                  /\ UNCHANGED <<current_key_id, current_api_key, tried_key_ids>>
    /\ UNCHANGED <<provider, keys, now, mode, hdr, initial_key_id, calls, start>>
    /\ UNCHANGED argvars

\* head of the loop when no secret or no key id is held: rotate from the
\* held id, or from the synthetic marker when there is none
RotateAtLoopHead(r) ==
    /\ pc[r] = "loop"
    /\ current_api_key[r] = NoSecret \/ current_key_id[r] = None
    /\ LET fo == attempt_automatic_failover(current_key_id[r], 400, ClientOf(mode[r]))
       IN /\ is_selected' = fo.sel
          /\ disabled_until' = fo.dis
          /\ log' = log \o fo.rows
          /\ rotations' = [rotations EXCEPT ![r] = @ + 1]
          /\ IF fo.ret # None
             THEN AfterSwitch(r, fo, out[r])
             ELSE /\ EndWithError(r, 503, out[r])
                  /\ UNCHANGED <<current_key_id, current_api_key, tried_key_ids>>
    /\ UNCHANGED <<provider, keys, now, mode, hdr, initial_key_id, calls, start>>
    /\ UNCHANGED argvars

\* the except branch for a key error: rotate away from the key that failed
HandleKeyError(r, error_code, events) ==
    LET fo == attempt_automatic_failover(current_key_id[r], error_code,
                                        ClientOf(mode[r]))
    IN /\ is_selected' = fo.sel
       /\ disabled_until' = fo.dis
       /\ rotations' = [rotations EXCEPT ![r] = @ + 1]
       /\ IF fo.ret # None
          THEN /\ log' = log \o fo.rows
               /\ AfterSwitch(r, fo, events)
          ELSE \* log_activity_db(..., details=...) has no parameter
               \* "details": the call raises TypeError inside the except
               \* branch, which leaves the router (and ends the generator)
               /\ log' = log \o fo.rows
               /\ result' = [result EXCEPT ![r] = Unhandled]
               /\ out' = [out EXCEPT ![r] = events]
               /\ pc' = [pc EXCEPT ![r] = "done"]
               /\ UNCHANGED <<current_key_id, current_api_key, tried_key_ids>>

\* the Google branch of the chat and stream loops converts the messages at
\* each attempt and tests "if not prompt"
EmptyPrompt(r) ==
    /\ provider = "google"
    /\ mode[r] \in {"chat", "stream"}
    /\ convert_messages(messages).prompt = <<>>

\* variant of RefuseEmptyPrompt that treats the refusal as a failure of the
\* credential in use
RefuseEmptyPrompt_AsKeyError(r) ==
    /\ pc[r] = "loop"
    /\ current_api_key[r] # NoSecret
    /\ current_key_id[r] # None
    /\ EmptyPrompt(r)
    /\ HandleKeyError(r, 401, out[r])
    /\ UNCHANGED <<provider, keys, now, mode, hdr, initial_key_id, calls, start>>
    /\ UNCHANGED argvars

\* one pass of the loop body with a held key and an empty prompt: the stream
\* yields an error event with code 400 and the sentinel and returns; the
\* chat route raises HTTPException(400) inside its try block, whose own
\* clause "except (HTTPException, ValueError)" takes it, classifies it and
\* raises it again as a non-key error.  No adapter is called.
RefuseEmptyPrompt(r) ==
    /\ pc[r] = "loop"
    /\ current_api_key[r] # NoSecret
    /\ current_key_id[r] # None
    /\ EmptyPrompt(r)
    /\ IF Streams(r) \/ ~is_key_error(provider, 400)
       THEN /\ EndWithError(r, 400, out[r])
            /\ UNCHANGED <<is_selected, disabled_until, log, rotations,
                           current_key_id, current_api_key, tried_key_ids>>
       ELSE HandleKeyError(r, 400, out[r])
    /\ UNCHANGED <<provider, keys, now, mode, hdr, initial_key_id, calls, start>>
    /\ UNCHANGED argvars

\* one pass of the loop body with a held key: the upstream call through the
\* provider adapter and the handling of what it returned or raised
Attempt(r) ==
    /\ pc[r] = "loop"
    /\ current_api_key[r] # NoSecret
    /\ current_key_id[r] # None
    /\ ~EmptyPrompt(r)
    /\ \E o \in Outcomes(provider, mode[r]) :
        LET key_id == current_key_id[r]
            error_code == IF o.status = 200 THEN 200
                          ELSE AdapterStatus(provider, mode[r], o.status, o.chunks)
            events == IF Streams(r)
                      THEN out[r] \o AdapterEvents(provider, key_id, o)
                      ELSE out[r]
        IN /\ calls' = [calls EXCEPT ![r] = Append(@,
                          [key_id |-> key_id, secret |-> current_api_key[r],
                           raw |-> o.status, chunks |-> o.chunks,
                           code |-> error_code])]
           /\ IF error_code = 200
              THEN /\ result' = [result EXCEPT ![r] =
                                    response_payload(mode[r], key_id, model,
                                                     base_model_name)]
                   /\ out' = [out EXCEPT ![r] =
                                IF Streams(r) THEN events \o <<RouterDone>> ELSE events]
                   /\ pc' = [pc EXCEPT ![r] = "done"]
                   /\ UNCHANGED <<is_selected, disabled_until, log, rotations,
                                  current_key_id, current_api_key, tried_key_ids>>
              ELSE IF is_key_error(provider, error_code)
              THEN HandleKeyError(r, error_code, events)
              ELSE /\ EndWithError(r, IF Streams(r) THEN final_error_code(error_code)
                                                   ELSE error_code, events)
                   /\ UNCHANGED <<is_selected, disabled_until, log, rotations,
                                  current_key_id, current_api_key, tried_key_ids>>
    /\ UNCHANGED <<provider, keys, now, mode, hdr, initial_key_id, start>>
    /\ UNCHANGED argvars

\* variant of Disconnect in which the abandoned upstream call is handled
\* like a 429 of the credential in use
Disconnect_AsRateLimit(r) ==
    /\ pc[r] \in {"start", "loop"}
    /\ result' = [result EXCEPT ![r] = Cancelled]
    /\ pc' = [pc EXCEPT ![r] = "gone"]
    /\ IF pc[r] = "start"
       THEN UNCHANGED <<calls, out, disabled_until>>
       ELSE /\ current_api_key[r] # NoSecret
            /\ current_key_id[r] # None
            /\ ~EmptyPrompt(r)
            /\ disabled_until' = quarantine(current_key_id[r], 429)
            /\ \E n \in 0..(IF Streams(r) THEN MaxChunks ELSE 0) :
                 /\ calls' = [calls EXCEPT ![r] = Append(@,
                        [key_id |-> current_key_id[r],
                         secret |-> current_api_key[r],
                         raw |-> None, chunks |-> n, code |-> None])]
                 /\ out' = [out EXCEPT ![r] =
                        @ \o ContentEvents(current_key_id[r], n,
                                           provider # "perplexity")]
    /\ UNCHANGED <<provider, keys, is_selected, now, log, mode,
                   hdr, initial_key_id, current_key_id, current_api_key,
                   tried_key_ids, rotations, start>>
    /\ UNCHANGED argvars

\* the client goes away while the request is suspended: before the
\* credential lookup has returned, or during the upstream call, which for a
\* stream may already have forwarded n content chunks.  The task is
\* cancelled: CancelledError and GeneratorExit are no Exception, so none of
\* the except clauses of the loop runs.  A call that was abandoned is
\* recorded without a response (raw and code None).
Disconnect(r) ==
    /\ pc[r] \in {"start", "loop"}
    /\ result' = [result EXCEPT ![r] = Cancelled]
    /\ pc' = [pc EXCEPT ![r] = "gone"]
    /\ IF pc[r] = "start"
       THEN UNCHANGED <<calls, out, disabled_until>>
       ELSE /\ current_api_key[r] # NoSecret
            /\ current_key_id[r] # None
            /\ ~EmptyPrompt(r)
            /\ disabled_until' = disabled_until
            /\ \E n \in 0..(IF Streams(r) THEN MaxChunks ELSE 0) :
                 /\ calls' = [calls EXCEPT ![r] = Append(@,
                        [key_id |-> current_key_id[r],
                         secret |-> current_api_key[r],
                         raw |-> None, chunks |-> n, code |-> None])]
                 /\ out' = [out EXCEPT ![r] =
                        @ \o ContentEvents(current_key_id[r], n,
                                           provider # "perplexity")]
    /\ UNCHANGED <<provider, keys, is_selected, now, log, mode,
                   hdr, initial_key_id, current_key_id, current_api_key,
                   tried_key_ids, rotations, start>>
    /\ UNCHANGED argvars

RequestStep(r) == FetchInitialKey(r) \/ RotateAtLoopHead(r) \/ Attempt(r)

Next ==
    \/ Tick
    \/ \E r \in Reqs : FetchInitialKey(r)
    \/ \E r \in Reqs : RotateAtLoopHead(r)
    \/ \E r \in Reqs : Attempt(r)
    \/ \E r \in Reqs : Disconnect(r)

Spec == Init /\ [][Next]_vars

\* variant of update_provider_key that leaves the other rows of the
\* provider as they are
update_provider_key_KeepOthers(key_id, sel) ==
    /\ key_id \in keys
    /\ \A r \in Reqs : pc[r] \in {"off", "start", "done", "gone"}
    /\ is_selected' = [is_selected EXCEPT ![key_id] = sel]
    /\ UNCHANGED <<provider, keys, disabled_until, now, log, mode, hdr, pc,
                   reqvars>>
    /\ UNCHANGED argvars

\* PATCH /{key_id} with is_selected given, while no request is inside its
\* loop: selecting a key first unselects every row of the provider, then
\* the row itself is updated
update_provider_key(key_id, sel) ==
    /\ key_id \in keys
    /\ \A r \in Reqs : pc[r] \in {"off", "start", "done", "gone"}
    /\ is_selected' = [k \in KeyIds |->
                          IF k = key_id THEN sel
                          ELSE IF sel THEN FALSE ELSE is_selected[k]]
    /\ UNCHANGED <<provider, keys, disabled_until, now, log, mode, hdr, pc,
                   reqvars>>
    /\ UNCHANGED argvars

\* requests served one at a time, with the management API used between them
NextManual ==
    \/ Next
    \/ \E k \in keys : \E sel \in BOOLEAN : update_provider_key(k, sel)

ManualSpec == Init /\ [][NextManual]_vars

\* a Google chat or stream request with any short message list, over any
\* table without quarantined rows
InitPrompt ==
    /\ provider = "google"
    /\ keys \in {1..n : n \in 0..NumKeys}
    /\ is_selected \in [KeyIds -> BOOLEAN]
    /\ \A k \in KeyIds : is_selected[k] => k \in keys
    /\ Cardinality({k \in KeyIds : is_selected[k]}) <= 1
    /\ disabled_until = [k \in KeyIds |-> None]
    /\ now = 0
    /\ log = <<>>
    /\ mode \in [Reqs -> {"chat", "stream"}]
    /\ mode[2] = "chat"
    /\ hdr \in [Reqs -> BOOLEAN]
    /\ hdr[2] = FALSE
    /\ pc = [r \in Reqs |-> IF r = 1 THEN "start" ELSE "off"]
    /\ initial_key_id = [r \in Reqs |-> None]
    /\ current_key_id = [r \in Reqs |-> None]
    /\ current_api_key = [r \in Reqs |-> NoSecret]
    /\ tried_key_ids = [r \in Reqs |-> {}]
    /\ calls = [r \in Reqs |-> <<>>]
    /\ rotations = [r \in Reqs |-> 0]
    /\ out = [r \in Reqs |-> <<>>]
    /\ result = [r \in Reqs |-> Pending]
    /\ start = [r \in Reqs |-> [dis |-> disabled_until, now |-> now]]
    /\ model = ModelFor(provider)
    /\ base_model_name = strip_provider_prefix(model)
    /\ messages \in UNION {[1..n -> Messages] : n \in 0..MaxPromptMessages}
    /\ prompt = <<>>
    /\ history = <<>>
    /\ new_key_info = [r \in Reqs |-> None]
    /\ others = {}

NextPrompt ==
    \/ Next
    \/ \E r \in Reqs : RefuseEmptyPrompt(r)

PromptSpec == InitPrompt /\ [][NextPrompt]_vars

\* ------------------------------------------------ rows of other owners
\* one request served alone while the table also holds rows of other owners
\* or of other providers, in any selection and quarantine state
InitIsolation ==
    /\ provider \in Providers
    /\ keys \in {1..n : n \in 0..NumKeys}
    /\ others = KeyIds \ keys
    /\ is_selected \in [KeyIds -> BOOLEAN]
    /\ Cardinality({k \in keys : is_selected[k]}) <= 1
    /\ disabled_until \in [KeyIds -> {None, MaxTime}]
    /\ now = 0
    /\ log = <<>>
    /\ mode \in [Reqs -> ModesOf(provider) \ {"vision"}]
    /\ mode[2] = "chat"
    /\ hdr \in [Reqs -> BOOLEAN]
    /\ hdr[2] = FALSE
    /\ pc = [r \in Reqs |-> IF r = 1 THEN "start" ELSE "off"]
    /\ initial_key_id = [r \in Reqs |-> None]
    /\ current_key_id = [r \in Reqs |-> None]
    /\ current_api_key = [r \in Reqs |-> NoSecret]
    /\ tried_key_ids = [r \in Reqs |-> {}]
    /\ calls = [r \in Reqs |-> <<>>]
    /\ rotations = [r \in Reqs |-> 0]
    /\ out = [r \in Reqs |-> <<>>]
    /\ result = [r \in Reqs |-> Pending]
    /\ start = [r \in Reqs |-> [dis |-> disabled_until, now |-> now]]
    /\ model = ModelFor(provider)
    /\ base_model_name = strip_provider_prefix(model)
    /\ messages = <<OneUserMessage>>
    /\ prompt = <<>>
    /\ history = <<>>
    /\ new_key_info = [r \in Reqs |-> None]

IsolationSpec == InitIsolation /\ [][Next]_vars

\* ------------------------------------------------ openai_compat.py
\* the status the non-streaming endpoint answers with for what the router
\* returned or raised: HTTPException is no ValueError, so the clause
\* "except Exception" takes every error of the router and raises 500
create_chat_completion(res) ==
    IF res.kind = "success" THEN 200 ELSE 500

\* two requests of the same (owner, provider) in flight together: both have
\* arrived, and their steps interleave at every await
InitConc ==
    /\ provider \in Providers
    /\ keys \in {1..n : n \in 0..NumKeys}
    /\ is_selected \in [KeyIds -> BOOLEAN]
    /\ \A k \in KeyIds : is_selected[k] => k \in keys
    /\ Cardinality({k \in KeyIds : is_selected[k]}) <= 1
    /\ disabled_until = [k \in KeyIds |-> None]
    /\ now = 0
    /\ log = <<>>
    /\ mode = [r \in Reqs |-> "chat"]
    /\ hdr = [r \in Reqs |-> FALSE]
    /\ pc = [r \in Reqs |-> "start"]
    /\ initial_key_id = [r \in Reqs |-> None]
    /\ current_key_id = [r \in Reqs |-> None]
    /\ current_api_key = [r \in Reqs |-> NoSecret]
    /\ tried_key_ids = [r \in Reqs |-> {}]
    /\ calls = [r \in Reqs |-> <<>>]
    /\ rotations = [r \in Reqs |-> 0]
    /\ out = [r \in Reqs |-> <<>>]
    /\ result = [r \in Reqs |-> Pending]
    /\ start = [r \in Reqs |-> [dis |-> disabled_until, now |-> now]]
    /\ model = ModelFor(provider)
    /\ base_model_name = strip_provider_prefix(model)
    /\ messages = <<OneUserMessage>>
    /\ prompt = <<>>
    /\ history = <<>>
    /\ new_key_info = [r \in Reqs |-> None]
    /\ others = {}

\* the steps of the two requests, with both clients connected and within
\* one minute of the clock
NextConc ==
    \/ \E r \in Reqs : FetchInitialKey(r)
    \/ \E r \in Reqs : RotateAtLoopHead(r)
    \/ \E r \in Reqs : Attempt(r)

ConcSpec == InitConc /\ [][NextConc]_vars

\* Step 4 of attempt_automatic_failover is two UPDATE statements without a
\* transaction.  A request served by another worker process of the gateway
\* can read the table between them.  BeginSwitch is a failing attempt up to
\* and including the first update: the call, the quarantine, the choice of
\* the next credential and is_selected = False on the failed row.
BeginSwitch(r) ==
    /\ pc[r] = "loop"
    /\ current_api_key[r] # NoSecret
    /\ current_key_id[r] # None
    /\ ~EmptyPrompt(r)
    /\ \E o \in Outcomes(provider, mode[r]) :
        LET key_id == current_key_id[r]
            error_code == AdapterStatus(provider, mode[r], o.status, o.chunks)
            fo == attempt_automatic_failover(key_id, error_code, ClientOf(mode[r]))
        IN /\ o.status # 200
           /\ is_key_error(provider, error_code)
           /\ fo.ret # None
           /\ calls' = [calls EXCEPT ![r] = Append(@,
                          [key_id |-> key_id, secret |-> current_api_key[r],
                           raw |-> o.status, chunks |-> o.chunks,
                           code |-> error_code])]
           /\ out' = [out EXCEPT ![r] =
                        IF Streams(r) THEN @ \o AdapterEvents(provider, key_id, o)
                        ELSE @]
           /\ disabled_until' = fo.dis
           /\ is_selected' = [is_selected EXCEPT ![key_id] = FALSE]
           /\ new_key_info' = [new_key_info EXCEPT ![r] = fo.ret]
    /\ rotations' = [rotations EXCEPT ![r] = @ + 1]
    /\ pc' = [pc EXCEPT ![r] = "switch"]
    /\ UNCHANGED <<provider, keys, now, log, mode, hdr, initial_key_id,
                   current_key_id, current_api_key, tried_key_ids, result, start,
                   model, base_model_name, messages, prompt, history, others>>

\* the second update, is_selected = True on the next row, the two log rows
\* and the router's handling of the returned credential
FinishSwitch(r) ==
    /\ pc[r] = "switch"
    /\ LET next_key_id == new_key_info[r]
           fo == [ret |-> next_key_id]
       IN /\ is_selected' = [is_selected EXCEPT ![next_key_id] = TRUE]
          /\ log' = log \o <<LogRow("UNSELECT", current_key_id[r]),
                             LogRow("SELECT", next_key_id)>>
          /\ AfterSwitch(r, fo, out[r])
    /\ new_key_info' = [new_key_info EXCEPT ![r] = None]
    /\ UNCHANGED <<provider, keys, disabled_until, now, mode, hdr,
                   initial_key_id, calls, rotations, start,
                   model, base_model_name, messages, prompt, history, others>>

\* two requests of the same (owner, provider) served by different worker
\* processes, started from a table whose oldest credential is the selected
\* one
InitWindow ==
    /\ InitConc
    /\ provider = "google"
    /\ keys = KeyIds
    /\ is_selected = [k \in KeyIds |-> k = 1]

NextWindow ==
    \/ \E r \in Reqs : FetchInitialKey(r)
    \/ \E r \in Reqs : RotateAtLoopHead(r)
    \/ \E r \in Reqs : Attempt(r)
    \/ \E r \in Reqs : BeginSwitch(r)
    \/ \E r \in Reqs : FinishSwitch(r)

WindowSpec == InitWindow /\ [][NextWindow]_vars

\* the code of an entry point before the credential lookup: strip the
\* prefix, determine the provider, map it to the provider_key_name.  A
\* failure is raised (chat, vision) or reported as one error event and the
\* sentinel (stream).
DetermineProvider(r) ==
    /\ pc[r] = "new"
    /\ base_model_name' = strip_provider_prefix(model)
    /\ LET d == determine_provider(model)
           provider_key_name == IF d.ok THEN provider_map(mode[r], d.name)
                                ELSE ""
       IN IF ~d.ok
          THEN EndWithError(r, d.status, out[r]) /\ UNCHANGED provider
          ELSE IF provider_key_name = ""
          THEN EndWithError(r, 400, out[r]) /\ UNCHANGED provider
          ELSE /\ provider' = provider_key_name
               /\ pc' = [pc EXCEPT ![r] = "start"]
               /\ UNCHANGED <<result, out>>
    /\ UNCHANGED <<keys, is_selected, disabled_until, now, log, mode, hdr,
                   initial_key_id, current_key_id, current_api_key,
                   tried_key_ids, calls, rotations, start,
                   model, messages, prompt, history, new_key_info, others>>

\* a request that has just arrived, for any model identifier and any entry
\* point, with credentials in the store
InitRoute ==
    /\ provider = "unresolved"
    /\ keys = KeyIds
    /\ is_selected = [k \in KeyIds |-> k = 1]
    /\ disabled_until = [k \in KeyIds |-> None]
    /\ now = 0
    /\ log = <<>>
    /\ mode \in [Reqs -> Modes]
    /\ mode[2] = "chat"
    /\ hdr = [r \in Reqs |-> FALSE]
    /\ pc = [r \in Reqs |-> IF r = 1 THEN "new" ELSE "off"]
    /\ initial_key_id = [r \in Reqs |-> None]
    /\ current_key_id = [r \in Reqs |-> None]
    /\ current_api_key = [r \in Reqs |-> NoSecret]
    /\ tried_key_ids = [r \in Reqs |-> {}]
    /\ calls = [r \in Reqs |-> <<>>]
    /\ rotations = [r \in Reqs |-> 0]
    /\ out = [r \in Reqs |-> <<>>]
    /\ result = [r \in Reqs |-> Pending]
    /\ start = [r \in Reqs |-> [dis |-> disabled_until, now |-> now]]
    /\ model \in ModelIds
    /\ base_model_name = <<>>
    /\ messages = <<OneUserMessage>>
    /\ prompt = <<>>
    /\ history = <<>>
    /\ new_key_info = [r \in Reqs |-> None]
    /\ others = {}

NextRoute == \E r \in Reqs : DetermineProvider(r)

RouteSpec == InitRoute /\ [][NextRoute]_vars

\* the Google branch of the chat and stream entry points normalises the
\* request's messages; the result depends on the messages only
ConvertMessages(r) ==
    /\ pc[r] = "convert"
    /\ LET c == convert_messages(messages)
       IN /\ prompt' = c.prompt
          /\ history' = c.history
    /\ pc' = [pc EXCEPT ![r] = "converted"]
    /\ UNCHANGED <<provider, keys, is_selected, disabled_until, now, log, mode,
                   hdr, initial_key_id, current_key_id, current_api_key,
                   tried_key_ids, calls, rotations, out, result, start,
                   model, base_model_name, messages, new_key_info, others>>

\* a Google chat request with any message list, about to normalise it
InitConvert ==
    /\ provider = "google"
    /\ keys = KeyIds
    /\ is_selected = [k \in KeyIds |-> k = 1]
    /\ disabled_until = [k \in KeyIds |-> None]
    /\ now = 0
    /\ log = <<>>
    /\ mode = [r \in Reqs |-> "chat"]
    /\ hdr = [r \in Reqs |-> FALSE]
    /\ pc = [r \in Reqs |-> IF r = 1 THEN "convert" ELSE "off"]
    /\ initial_key_id = [r \in Reqs |-> None]
    /\ current_key_id = [r \in Reqs |-> None]
    /\ current_api_key = [r \in Reqs |-> NoSecret]
    /\ tried_key_ids = [r \in Reqs |-> {}]
    /\ calls = [r \in Reqs |-> <<>>]
    /\ rotations = [r \in Reqs |-> 0]
    /\ out = [r \in Reqs |-> <<>>]
    /\ result = [r \in Reqs |-> Pending]
    /\ start = [r \in Reqs |-> [dis |-> disabled_until, now |-> now]]
    /\ model = ModelFor("google")
    /\ base_model_name = strip_provider_prefix(model)
    /\ messages \in MessageLists
    /\ prompt = <<>>
    /\ history = <<>>
    /\ new_key_info = [r \in Reqs |-> None]
    /\ others = {}

NextConvert == \E r \in Reqs : ConvertMessages(r)

ConvertSpec == InitConvert /\ [][NextConvert]_vars

\* the event loop resumes a request whenever its awaited call has returned,
\* and every upstream call carries a timeout
FairSpec == Spec /\ \A r \in Reqs : WF_vars(RequestStep(r))
FairConcSpec == ConcSpec /\ \A r \in Reqs : WF_vars(RequestStep(r))

TypeOK ==
    /\ provider \in Providers \cup {"unresolved"}
    /\ model \in ModelIds
    /\ keys \subseteq KeyIds
    /\ others \subseteq KeyIds \ keys
    /\ now \in 0..MaxTime
    /\ \A r \in Reqs :
        /\ pc[r] \in {"off", "new", "convert", "converted", "start", "loop",
                    "switch", "done", "gone"}
        /\ current_key_id[r] \in {None} \cup keys
        /\ tried_key_ids[r] \subseteq keys
        /\ result[r].kind \in {"pending", "success", "http_error", "exception",
                            "cancelled"}

\* ------------------------------------------------ properties
Done(r) == pc[r] = "done"
Gone(r) == pc[r] = "gone"
CalledIds(r) == {calls[r][i].key_id : i \in DOMAIN calls[r]}
KeyErrorStatus == {401, 403, 429}

\* C1: for every number N of credentials of the (owner, provider) and every
\* assignment of upstream outcomes to them, a chat, streaming or vision
\* request makes at most N upstream calls and then ends (a result or a
\* raised error), unless its client went away first.
C1_TerminatesWithinN ==
    /\ [](\A r \in Reqs : Len(calls[r]) <= Cardinality(keys))
    /\ <>(Done(1) \/ Gone(1))

\* a request that called every one of NumKeys credentials and ended
C1_Witness ==
    /\ Done(1)
    /\ Cardinality(keys) = NumKeys
    /\ Len(calls[1]) = NumKeys

\* C2: within one request no credential id is used for more than one
\* upstream call: tried_key_ids only grows, every id called is in it, and
\* no id is called twice.
C2_NoIdCalledTwice ==
    /\ [][\A r \in Reqs : tried_key_ids[r] \subseteq tried_key_ids'[r]]_vars
    /\ [](\A r \in Reqs :
            /\ CalledIds(r) \subseteq tried_key_ids[r]
            /\ \A i, j \in DOMAIN calls[r] :
                   calls[r][i].key_id = calls[r][j].key_id => i = j)

\* a request that went on to a second credential after the first failed
C2_Witness ==
    /\ Len(calls[1]) >= 2
    /\ calls[1][1].key_id # calls[1][2].key_id
    /\ tried_key_ids[1] = CalledIds(1)

\* the request began with exactly one selected credential whose secret it
\* used, and with no credential quarantined
StartsOnSelected(r) ==
    /\ ~hdr[r]
    /\ initial_key_id[r] # None
    /\ \A k \in keys : start[r].dis[k] = None

\* C3: with N credentials of which exactly one is selected and none is
\* quarantined, if N-1 of them answer with key errors (any mix of 401, 403,
\* 429) and one succeeds, a request running alone returns the response of
\* the succeeding credential.  Stated over the calls made: a request that
\* has ended after key errors only, with a credential still uncalled, would
\* have had to go on to it; one that got a success returns it.
C3_SucceedingCredentialWins ==
    (/\ Done(1)
     /\ StartsOnSelected(1)
     /\ \A i \in DOMAIN calls[1] : calls[1][i].raw \in KeyErrorStatus \cup {200}
     /\ \/ \E i \in DOMAIN calls[1] : calls[1][i].raw = 200
        \/ Len(calls[1]) < Cardinality(keys))
    => \E i \in DOMAIN calls[1] :
          /\ calls[1][i].raw = 200
          /\ result[1].kind = "success"
          /\ result[1].key = calls[1][i].key_id

\* the events of a stream that ended with an error: exactly one error event,
\* then the sentinel, and no other sentinel
EndsWithOneError(events, code) ==
    /\ Len(events) >= 2
    /\ events[Len(events) - 1] = ErrorEvent(code)
    /\ events[Len(events)] = RouterDone
    /\ Cardinality({i \in DOMAIN events : events[i].type = "error"}) = 1
    /\ Cardinality({i \in DOMAIN events : events[i].type = "done"}) = 1

\* C4: when all N >= 1 credentials answer with key errors (any mix of 401,
\* 403, 429) the request ends with the 503 AllCredentialsExhausted error,
\* for a stream exactly one error event and then the sentinel; never with
\* the raw provider status and never with an unhandled exception.
C4_AllKeyErrorsGive503 ==
    (/\ Done(1)
     /\ Len(calls[1]) >= 1
     /\ \A i \in DOMAIN calls[1] : calls[1][i].raw \in KeyErrorStatus)
    => /\ result[1] = HttpError(503)
       /\ Streams(1) => EndsWithOneError(out[1], 503)

\* the adapter statuses the router does not take for key errors
NonKeyError(prov, code) ==
    \/ code \in {500, 502, 503, 504}
    \/ (code = 400 /\ prov # "xai")

C6_NoFailoverAfterContent ==
    Streams(1) =>
        \A i, j \in DOMAIN calls[1] : i < j => calls[1][i].chunks = 0

\* C7: every stream, for every provider and outcome, has the sentinel
\* "data: [DONE]" exactly once, as its last event.
C7_OneSentinelLast ==
    (Streams(1) /\ Done(1)) =>
        /\ Len(out[1]) >= 1
        /\ out[1][Len(out[1])].type = "done"
        /\ Cardinality({i \in DOMAIN out[1] : out[1][i].type = "done"}) = 1

\* eligible in the sense of the specification: disabled_until is null or
\* lies in the past
Eligible(dis, t, k) == dis[k] = None \/ dis[k] <= t

\* C8: when no credential is selected but an eligible one exists, the first
\* pass of the loop obtains a credential through rotation started from the
\* synthetic "no key yet" marker and calls the upstream with it.
C8_RotationFromMarker ==
    (/\ Done(1)
     /\ initial_key_id[1] = None
     /\ \E k \in keys : Eligible(start[1].dis, start[1].now, k))
    => /\ rotations[1] >= 1
       /\ Len(calls[1]) >= 1
       /\ Eligible(start[1].dis, start[1].now, calls[1][1].key_id)

\* C9 as stated: a request whose provider has no credential configured and
\* for which none can be found fails at once with NoCredentialConfigured
\* (400), without any upstream call.
C9_NoCredentialGives400 ==
    (Done(1) /\ ~hdr[1] /\ keys = {})
    => (result[1] = HttpError(400) /\ calls[1] = <<>>)

\* C9 amended: such a request fails at once with the 503 error "No usable
\* API key available for provider", for a stream as one error event and the
\* sentinel, without any upstream call.
C9_NoCredentialGives503 ==
    (Done(1) /\ ~hdr[1] /\ keys = {})
    => /\ result[1] = HttpError(503)
       /\ calls[1] = <<>>
       /\ Streams(1) => out[1] = <<ErrorEvent(503), RouterDone>>

\* a request for a provider without any credential that has ended
C9_Witness ==
    /\ Done(1)
    /\ ~hdr[1]
    /\ keys = {}
    /\ rotations[1] = 1
    /\ result[1] = HttpError(503)

\* the first credential after failed in the cyclic creation order that is
\* eligible, None when there is none
FirstEligibleAfter(failed, dis, t) ==
    LET n == Cardinality(keys)
        dist(k) == (k - failed + n) % n
        cand == {k \in keys \ {failed} : Eligible(dis, t, k)}
    IN IF cand = {} THEN None
       ELSE CHOOSE k \in cand : \A c \in cand : dist(k) <= dist(c)

\* C10: the replacement chosen by rotation after credential F failed is the
\* first eligible credential strictly after F in the cyclic creation order
\* of all credentials; no eligible credential between F and the chosen one
\* is skipped.  A switch is the step that logs UNSELECT F and SELECT chosen.
C10_FirstEligibleAfterFailed ==
    [][Len(log') = Len(log) + 2 =>
         LET failed == log'[Len(log) + 1].key_id
             chosen == log'[Len(log) + 2].key_id
         IN chosen = FirstEligibleAfter(failed, disabled_until', now)]_vars

\* a step of request r in which attempt_automatic_failover ran for a
\* credential that failed
RotatesFromKey(r) ==
    /\ rotations'[r] = rotations[r] + 1
    /\ current_key_id[r] \in keys

\* the step wrote the two rows of a switch
Switched == Len(log') = Len(log) + 2

\* C11: the rotation candidates are exactly the credentials of the (owner,
\* provider) whose disabled_until is null or lies in the past; a credential
\* quarantined by a rate-limit error is a candidate again once its
\* disabled_until has passed.  So rotation away from a failed credential
\* switches exactly when another such credential exists, and to one of them.
C11_CandidatesNullOrPast ==
    [][\A r \in Reqs : RotatesFromKey(r) =>
         LET cand == {k \in keys \ {current_key_id[r]} :
                         Eligible(disabled_until', now, k)}
         IN /\ (cand # {}) <=> Switched
            /\ Switched => log'[Len(log')].key_id \in cand]_vars

\* a step of request r that made an upstream call, and that call
Called(r) == Len(calls'[r]) = Len(calls[r]) + 1
NewCall(r) == calls'[r][Len(calls'[r])]

\* C12: on a rate-limit key error (429) the failed credential's
\* disabled_until is set to the current time plus 5 minutes, whether or not
\* a replacement is found; on any other key error (401, 403, key-shaped 400)
\* disabled_until is left unchanged.
C12_RateLimitQuarantine ==
    [][\A r \in Reqs : Called(r) =>
         /\ NewCall(r).code = 429 =>
               disabled_until' =
                   [disabled_until EXCEPT ![NewCall(r).key_id] = now + 5]
         /\ (\/ NewCall(r).code \in {401, 403}
             \/ (NewCall(r).code = 400 /\ provider = "xai"))
            => disabled_until' = disabled_until]_vars

\* two credentials both answered 429: the first was replaced, the second
\* had no replacement, and both are quarantined for five minutes
C12_Witness ==
    /\ Done(1)
    /\ Len(calls[1]) = 2
    /\ \A i \in 1..2 :
          /\ calls[1][i].code = 429
          /\ disabled_until[calls[1][i].key_id] = start[1].now + 5
    /\ Len(log) = 3

\* C13: a credential whose disabled_until lies in the future is never used
\* for an upstream call, neither as a rotation replacement nor as the first
\* credential of a new request when it is still marked selected.
C13_QuarantinedNeverCalled ==
    [][\A r \in Reqs : Called(r) =>
         ~(/\ disabled_until[NewCall(r).key_id] # None
           /\ disabled_until[NewCall(r).key_id] > now)]_vars

\* the request ended by reporting exhaustion: a 503 that is not the status
\* of a non-key upstream failure passed on
Exhausted(r) ==
    /\ Done(r)
    /\ result[r] = HttpError(503)
    /\ \/ calls[r] = <<>>
       \/ ~NonKeyError(provider, calls[r][Len(calls[r])].code)

\* C14: a request reports exhaustion (503) only when every non-quarantined
\* credential of the (owner, provider) has been attempted upstream and
\* failed within that request, never while an eligible credential is still
\* unattempted.
C14_ExhaustionOnlyWhenAllTried ==
    Exhausted(1) =>
        \A k \in keys : Eligible(disabled_until, now, k) => k \in CalledIds(1)

\* C15: for every provider an upstream failure with status 401, 403 or 429
\* is classified as a key error: the failed credential is handed to
\* rotation and, when rotation yields a credential not yet attempted, the
\* call is retried with it instead of the error being surfaced.
C15_KeyErrorsRotate ==
    [][\A r \in Reqs : (Called(r) /\ NewCall(r).raw \in KeyErrorStatus) =>
         /\ rotations'[r] = rotations[r] + 1
         /\ (Switched /\ log'[Len(log')].key_id \notin tried_key_ids[r])
            => /\ pc'[r] = "loop"
               /\ current_key_id'[r] = log'[Len(log')].key_id]_vars

\* the step ended request r with an error and without touching rotation,
\* the table or the log
SurfacedAtOnce(r) ==
    /\ pc'[r] = "done"
    /\ result'[r].kind = "http_error"
    /\ rotations'[r] = rotations[r]
    /\ UNCHANGED <<keys, is_selected, disabled_until, log>>

\* C16 as stated: for every provider an upstream 400 that is not key-shaped
\* is non-retryable: it is surfaced on first occurrence and triggers no
\* rotation, no unselect and no further upstream call.
C16_BadRequestNeverRetried ==
    [][\A r \in Reqs : (Called(r) /\ NewCall(r).raw = 400)
                          => SurfacedAtOnce(r)]_vars

\* C16 amended: this holds for google, gigachat and perplexity; for xai
\* every 400 is treated as a key error and handed to rotation.
C16_BadRequestRetriedForXaiOnly ==
    [][\A r \in Reqs : (Called(r) /\ NewCall(r).raw = 400) =>
         IF provider = "xai" THEN rotations'[r] = rotations[r] + 1
                             ELSE SurfacedAtOnce(r)]_vars

\* a rejected input on the first of several credentials ended the request
C16_Witness ==
    /\ Done(1)
    /\ provider # "xai"
    /\ Cardinality(keys) >= 2
    /\ Len(calls[1]) = 1
    /\ calls[1][1].raw = 400
    /\ rotations[1] = 0
    /\ result[1].kind = "http_error"

NewRows == SubSeq(log', Len(log) + 1, Len(log'))

\* a step that moves the selection or records a move of it
Transition ==
    \/ is_selected' # is_selected
    \/ \E i \in 1..Len(NewRows) : NewRows[i].action \in {"UNSELECT", "SELECT"}

ExhaustedRows ==
    Cardinality({i \in 1..Len(log) : log[i].action = "FAILOVER_EXHAUSTED"})

\* C19: a request that ends in total exhaustion has inserted exactly one
\* FAILOVER_EXHAUSTED row, whichever way exhaustion was reached (no
\* candidate, only the failed credential, or a cycle back to a credential
\* already attempted).  Stated for a request that ran alone, so that every
\* row is its own, and that attempted at least one credential.
C19_OneExhaustedRowPerExhaustion ==
    (Exhausted(1) /\ pc[2] = "off" /\ calls[1] # <<>>) => ExhaustedRows = 1

\* the positions of the events of one type in the stream of request r
At(r, type) == {i \in DOMAIN out[r] : out[r][i].type = type}

\* C20: a stream that completes successfully, for every provider, holds
\* exactly one chunk with a finish_reason, after every content chunk and
\* before the end-of-stream sentinel, also when the upstream reports usage
\* at the end of the stream.
C20_OneFinishChunk ==
    (Streams(1) /\ Done(1) /\ result[1].kind = "success") =>
        /\ Cardinality(At(1, "finish")) = 1
        /\ \A f \in At(1, "finish") :
              /\ \A c \in At(1, "content") : c < f
              /\ \A d \in At(1, "done") : f < d

\* the positions of the chunks of request r whose delta carries a role
RoleAt(r) == {i \in DOMAIN out[r] : out[r][i].role}

\* C21: in a stream whose upstream supplies no role, exactly one chunk
\* carries role = assistant, it is the first content-bearing chunk, and
\* every later content-bearing chunk carries the content delta only.
C21_RoleOnFirstContentChunk ==
    (Streams(1) /\ Done(1) /\ At(1, "content") # {}) =>
        RoleAt(1) = {CHOOSE c \in At(1, "content") :
                        \A d \in At(1, "content") : c <= d}

\* a step in which the client of request r goes away
Disconnects(r) == pc[r] # "gone" /\ pc'[r] = "gone"

C23_InterleavedRequestsTerminate ==
    /\ [](\A r \in Reqs : \A i, j \in DOMAIN calls[r] :
            calls[r][i].key_id = calls[r][j].key_id => i = j)
    /\ \A r \in Reqs : <>Done(r)

\* both requests started on the same selected credential, both rotated away
\* from it because it failed, and both ended after further calls
C23_Witness ==
    /\ Done(1) /\ Done(2)
    /\ Len(calls[1]) >= 2 /\ Len(calls[2]) >= 2
    /\ calls[1][1].key_id = calls[2][1].key_id
    /\ rotations[1] >= 1 /\ rotations[2] >= 1
    /\ Len(log) >= 4

\* C24: with requests served one at a time and a store that starts with at
\* most one selected credential, at most one credential of the (owner,
\* provider) is selected after every rotation and every manual selection.
C24_AtMostOneSelected ==
    Cardinality({k \in keys : is_selected[k]}) <= 1

\* a request rotated from one credential to another, and afterwards a third
\* one was selected by hand
C24_Witness ==
    /\ Done(1)
    /\ Len(log) = 2
    /\ log[2].action = "SELECT"
    /\ \E k \in keys : /\ is_selected[k]
                       /\ k # log[1].key_id
                       /\ k # log[2].key_id

\* C25: on the non-streaming POST /v1/chat/completions every error raised
\* by the router reaches the client with the router's own status code.
C25_EndpointKeepsRouterStatus ==
    (Done(1) /\ mode[1] = "chat" /\ result[1].kind = "http_error") =>
        create_chat_completion(result[1]) = result[1].status

\* the provider_key_name a prefix stands for
PrefixProvider(p) ==
    IF p = "google/" THEN "google"
    ELSE IF p = "x-ai/" THEN "xai"
    ELSE IF p = "sber/" THEN "gigachat"
    ELSE "perplexity"

\* a step in which request r is resolved or refused
Resolves(r) == pc[r] = "new" /\ pc'[r] # "new"

\* C26: for every model identifier that starts with a known provider
\* prefix, whatever family tokens the rest holds, the resolver returns the
\* provider of that prefix and the identifier without the prefix as the
\* native model name.  (For the vision entry point: the prefixes of the two
\* providers it serves.)
C26_PrefixDecidesProvider ==
    [][(/\ Resolves(1)
        /\ Len(model) > 0
        /\ model[1] \in Prefixes
        /\ mode[1] = "vision" => model[1] \in {"google/", "x-ai/"})
       => /\ pc'[1] = "start"
          /\ provider' = PrefixProvider(model[1])
          /\ base_model_name' = Tail(model)]_vars

\* the identifier has no provider prefix and holds no model-family name
Unmappable(m) ==
    /\ m # <<>>
    /\ m[1] \notin Prefixes
    /\ \A i \in DOMAIN m : m[i] \notin Families \cup {"GROK"}

\* C27: an identifier with no known prefix and no family token is refused
\* with 404 and an empty identifier with 400; in both cases no credential is
\* read or changed, no rotation starts and no upstream call is made, and a
\* stream consists of one error event and the sentinel.
C27_UnmappableRefused ==
    [][\A r \in Reqs : (Resolves(r) /\ (model = <<>> \/ Unmappable(model))) =>
         /\ pc'[r] = "done"
         /\ result'[r] = HttpError(IF model = <<>> THEN 400 ELSE 404)
         /\ UNCHANGED <<keys, is_selected, disabled_until, log>>
         /\ calls'[r] = <<>>
         /\ rotations'[r] = 0
         /\ current_key_id'[r] = None
         /\ Streams(r) => out'[r] = <<ErrorEvent(result'[r].status),
                                       RouterDone>>]_vars

\* a stream for an identifier nobody serves, refused with 404
C27_Witness ==
    /\ Done(1)
    /\ Streams(1)
    /\ Unmappable(model)
    /\ result[1] = HttpError(404)
    /\ Len(out[1]) = 2
    /\ \E k \in keys : is_selected[k]

\* C28: for every provider and whichever credential succeeds, at the first
\* attempt or after rotations, the "model" of a successful non-streaming
\* chat completion is the identifier as the client sent it, prefix
\* included.
C28_ResponseNamesOriginalModel ==
    (Done(1) /\ mode[1] = "chat" /\ result[1].kind = "success") =>
        result[1].model = model

\* a chat completion that succeeded on a replacement credential; the
\* identifier has a prefix, so the native name differs from it
C28_Witness ==
    /\ Done(1)
    /\ mode[1] = "chat"
    /\ result[1].kind = "success"
    /\ rotations[1] >= 1
    /\ Len(calls[1]) >= 2
    /\ model # base_model_name
    /\ result[1].model = model

\* the messages the normaliser reads: those with a role and extractable text
Usable(i) ==
    /\ i \in DOMAIN messages
    /\ messages[i].role # ""
    /\ extracted_text(messages[i].content).ok
TextOf(i) == extracted_text(messages[i].content).text
SystemAt == {i \in DOMAIN messages : Usable(i) /\ messages[i].role = "system"}
UserAt == {i \in DOMAIN messages : Usable(i) /\ messages[i].role = "user"}
FirstSystem == CHOOSE i \in SystemAt : \A j \in SystemAt : i <= j
LastUser == CHOOSE i \in UserAt : \A j \in UserAt : j <= i
\* the remaining non-system messages
Remaining ==
    {i \in DOMAIN messages :
        Usable(i) /\ messages[i].role # "system" /\ (UserAt = {} \/ i # LastUser)}
NativeRole(i) == IF messages[i].role = "assistant" THEN "model" ELSE messages[i].role
\* the entries of the messages at the indices S, in their original order
RECURSIVE InOrder(_)
InOrder(S) ==
    IF S = {} THEN <<>>
    ELSE LET i == CHOOSE x \in S : \A y \in S : x <= y
         IN <<[role |-> NativeRole(i), content |-> TextOf(i)]>> \o InOrder(S \ {i})
\* of the remaining messages, those that do not follow one of the same role
Leading ==
    {i \in Remaining :
        \A j \in Remaining :
            (j < i /\ \A k \in Remaining : ~(j < k /\ k < i))
            => NativeRole(j) # NativeRole(i)}
Converted(r) == pc[r] = "converted"

\* C29 as stated: the prompt is the first system message, a blank line and
\* the last user message (the last user message alone without a system
\* message), and the history is all remaining non-system messages in their
\* original order with assistant as the native role.
C29_HistoryIsAllRemaining ==
    (Converted(1) /\ UserAt # {}) =>
        /\ prompt = IF SystemAt # {}
                    THEN TextOf(FirstSystem) \o <<"\n", "\n">> \o TextOf(LastUser)
                    ELSE TextOf(LastUser)
        /\ history = InOrder(Remaining)

\* C29: of the messages with a role and extractable text, the prompt is the
\* first system message, a blank line and the last user message (the last
\* user message alone when there is no system message or its text is empty);
\* the history is the remaining non-system messages in their original order
\* with assistant as the native role, less every message that follows one of
\* the same native role; without a user message both are empty.
C29_PromptAndCollapsedHistory ==
    Converted(1) =>
        IF UserAt = {}
        THEN prompt = <<>> /\ history = <<>>
        ELSE /\ prompt = IF SystemAt # {} /\ TextOf(FirstSystem) # <<>>
                         THEN TextOf(FirstSystem) \o <<"\n", "\n">>
                              \o TextOf(LastUser)
                         ELSE TextOf(LastUser)
             /\ history = InOrder(Leading)

\* a conversion of a list with a system message, an assistant turn and a
\* user message: the prompt joins two texts and the history is not empty
C29_Witness ==
    /\ Converted(1)
    /\ UserAt # {}
    /\ SystemAt # {} /\ TextOf(FirstSystem) # <<>>
    /\ Len(prompt) > Len(TextOf(LastUser))
    /\ \E i \in Remaining : messages[i].role = "assistant"
    /\ history # <<>>

\* C30: for every message list, no two adjacent entries of the history the
\* normaliser returns have the same role.
C30_NoAdjacentSameRole ==
    Converted(1) =>
        \A i \in 1..(Len(history) - 1) : history[i].role # history[i + 1].role

\* a conversion that dropped a message because it followed one of its role
C30_Witness ==
    /\ Converted(1)
    /\ \E i \in Remaining : i \notin Leading
    /\ history # <<>>

\* no message of the request is a user message with extractable text
NoUserMessage == UserAt = {}

Returned(r, k) ==
    /\ rotations'[r] = rotations[r] + 1
    /\ Switched
    /\ NewRows[2] = [action |-> "SELECT", key_id |-> k]

\* C32: whenever rotation returns a credential id that is already in the
\* request's attempted set, the request ends at that point with status 503
\* (a stream with one error event of code 503 and the sentinel) and makes
\* no upstream call with that credential, then or later.
C32_CycleEndsWith503 ==
    /\ [][\A r \in Reqs : \A k \in keys :
            (Returned(r, k) /\ k \in tried_key_ids[r]) =>
                /\ pc'[r] = "done"
                /\ result'[r].kind = "http_error" /\ result'[r].status = 503
                /\ \A i \in (Len(calls[r]) + 1)..Len(calls'[r]) :
                      calls'[r][i].key_id # k
                /\ current_key_id'[r] = current_key_id[r]
                /\ (Streams(r) =>
                      SubSeq(out'[r], Len(out'[r]) - 1, Len(out'[r]))
                          = <<ErrorEvent(503), RouterDone>>)]_vars
    /\ [][\A r \in Reqs : Done(r) => calls'[r] = calls[r] /\ Done(r)']_vars

\* a request that ended because rotation handed back the credential it had
\* tried first: that credential is selected again and was called once
C32_Witness ==
    /\ Done(1)
    /\ result[1].status = 503
    /\ Len(calls[1]) >= 2
    /\ log # <<>>
    /\ log[Len(log)].action = "SELECT"
    /\ log[Len(log)].key_id = calls[1][1].key_id
    /\ log[Len(log)].key_id # current_key_id[1]

Selected == {k \in keys : is_selected[k]}

\* C33 as stated: under every interleaving of concurrent requests, no two
\* credentials of the (owner, provider) are selected in any reachable state.
C33_NoTwoSelectedConcurrently ==
    \A a \in keys : \A b \in keys : (is_selected[a] /\ is_selected[b]) => a = b

\* C33: under every interleaving of concurrent requests started from a
\* store with at most one selected credential, the selection changes only
\* by a rotation, which unselects the credential the rotating request
\* failed on and selects the one it returns; so the number of selected
\* credentials never exceeds the number of concurrent requests, and it
\* exceeds one only after a request rotated away from a credential that
\* another request had already unselected.
C33_SelectedBoundedByRequests ==
    /\ [](Cardinality(Selected) <= Cardinality(Reqs))
    /\ [][is_selected' # is_selected =>
            \E r \in Reqs : \E N \in keys :
                LET F == current_key_id[r]
                IN /\ rotations'[r] = rotations[r] + 1
                   /\ F \in keys /\ N # F
                   /\ Selected' = (Selected \ {F}) \cup {N}
                   /\ (Cardinality(Selected') > Cardinality(Selected)
                          => ~is_selected[F])]_vars

\* two requests in flight and two credentials selected
C33_Witness ==
    /\ Cardinality(Selected) = 2
    /\ rotations[1] > 0 /\ rotations[2] > 0
    /\ \E r \in Reqs : pc[r] = "loop"

\* the credential k was eligible when request r began and no call of any
\* request with it has failed: k is a credential that succeeds upstream
Succeeds(r, k) ==
    /\ k \in keys
    /\ start[r].dis[k] = None
    /\ \A q \in Reqs : \A i \in DOMAIN calls[q] :
          calls[q][i].key_id = k => calls[q][i].raw = 200

\* every upstream failure request r met was a key error (401, 403, 429)
\* that reached the router as such
OnlyKeyErrors(r) ==
    \A i \in DOMAIN calls[r] :
        calls[r][i].raw = 200
        \/ (calls[r][i].raw \in KeyErrorStatus /\ calls[r][i].code = calls[r][i].raw)

\* C34: if at least one eligible credential of the (owner, provider)
\* succeeds upstream, every request returns success under every
\* interleaving with other requests: a request that met key errors only
\* does not end in failure while such a credential exists, whatever
\* selection state it read when it began.
C34_ProgressUnderStaleSelection ==
    \A r \in Reqs :
        (Done(r) /\ OnlyKeyErrors(r) /\ \E k \in keys : Succeeds(r, k))
            => result[r].kind = "success"

\* the step unselects or quarantines the credential F
Penalised(F) ==
    \/ is_selected[F] /\ ~is_selected'[F]
    \/ disabled_until'[F] # disabled_until[F]

\* C35: whenever a request unselects or quarantines a credential after a
\* key error, that credential is the one whose secret was sent in the
\* failing upstream call, also when the secret of the first attempt came
\* from a request header or a process default.
C35_PenalisedCredentialWasSent ==
    [][\A r \in Reqs : \A F \in keys :
          (Called(r) /\ rotations'[r] = rotations[r] + 1 /\ Penalised(F))
              => NewCall(r).secret = RowSecret(F)]_vars

CtlOf(p, key_id, api_key, res) ==
    IF p = "done" THEN (IF res.kind = "success" THEN "SUCCESS" ELSE "FAILED")
    ELSE IF p = "loop" /\ key_id # None /\ api_key # NoSecret THEN "CALLING"
    ELSE IF p \in {"start", "loop"} THEN "SELECTING"
    ELSE p
Ctl(r) == CtlOf(pc[r], current_key_id[r], current_api_key[r], result[r])
CtlNext(r) == CtlOf(pc'[r], current_key_id'[r], current_api_key'[r], result'[r])

\* request r took a step
Moved(r) ==
    \/ pc'[r] # pc[r]
    \/ calls'[r] # calls[r]
    \/ rotations'[r] # rotations[r]
    \/ current_key_id'[r] # current_key_id[r]

\* C37: a request that is being served moves only SELECTING -> CALLING,
\* CALLING -> SUCCESS, CALLING -> KEY_ERROR -> SELECTING, CALLING ->
\* NON_KEY_ERROR -> FAILED and SELECTING -> EXHAUSTED -> FAILED.  Read per
\* step of the router: from SELECTING no call is made, and the request fails
\* only through a rotation that found nothing (503); from CALLING one call
\* is made, or the request is refused with 400 before it (a non-key error),
\* a 200 ends in SUCCESS without rotation, a non-key error ends in FAILED
\* without rotation, a key error is followed by exactly one rotation and
\* then by CALLING with another credential or by FAILED.  SUCCESS and
\* FAILED are terminal: afterwards the request makes no call and no rotation,
\* and neither the credential table nor the log changes.
C37_ControlStateMachine ==
    [][\A r \in Reqs :
        LET a == Ctl(r)
            b == CtlNext(r)
            rotated == rotations'[r] # rotations[r]
        IN /\ a \in {"SUCCESS", "FAILED"} =>
                /\ b = a
                /\ ~Moved(r)
                /\ result'[r] = result[r] /\ out'[r] = out[r]
                /\ (\A q \in Reqs \ {r} : pc[q] \in {"off", "done", "gone"})
                      => UNCHANGED <<keys, is_selected, disabled_until, log>>
           /\ (a = "SELECTING" /\ Moved(r) /\ b # "gone") =>
                /\ calls'[r] = calls[r]
                /\ b \in {"SELECTING", "CALLING", "FAILED"}
                /\ b = "SELECTING" => (pc[r] = "start" /\ ~rotated)
                /\ b = "CALLING" => (pc[r] = "start" \/ rotated)
                /\ b = "FAILED" =>
                     (rotations'[r] = rotations[r] + 1 /\ result'[r] = HttpError(503))
           /\ (a = "CALLING" /\ Moved(r) /\ b # "gone" /\ ~Called(r)) =>
                /\ calls'[r] = calls[r]
                /\ b = "FAILED" /\ ~rotated
                /\ result'[r] = HttpError(400)
           /\ (a = "CALLING" /\ Called(r) /\ b # "gone") =>
                /\ NewCall(r).key_id = current_key_id[r]
                /\ IF NewCall(r).code = 200
                   THEN b = "SUCCESS" /\ ~rotated
                   ELSE IF NonKeyError(provider, NewCall(r).code)
                   THEN b = "FAILED" /\ ~rotated
                   ELSE /\ rotations'[r] = rotations[r] + 1
                        /\ b \in {"CALLING", "FAILED"}
                        /\ b = "CALLING" =>
                             current_key_id'[r] \notin tried_key_ids[r]]_vars

\* a Gemini stream went SELECTING, CALLING, KEY_ERROR (403), SELECTING,
\* CALLING, SUCCESS
C37_Witness ==
    /\ Ctl(1) = "SUCCESS"
    /\ provider = "google"
    /\ mode[1] = "stream"
    /\ Len(calls[1]) = 2
    /\ calls[1][1].code = 403
    /\ rotations[1] = 1
    /\ current_key_id[1] # initial_key_id[1]

\* the owner's credentials for the provider that rotation away from f may
\* pick, judged by their own rows after the step, and the one the cyclic
\* walk in creation order reaches first
OwnCandidates(f) == {k \in keys \ {f} : disabled_until'[k] = None}
OwnNext(f) ==
    IF \E k \in OwnCandidates(f) : k > f
    THEN CHOOSE k \in OwnCandidates(f) :
            k > f /\ \A j \in OwnCandidates(f) : j > f => k <= j
    ELSE CHOOSE k \in OwnCandidates(f) : \A j \in OwnCandidates(f) : k <= j

\* C38: a request of owner U for provider P calls upstream with, selects,
\* unselects and quarantines only credentials of (U, P).  Rows of other
\* owners or providers keep their is_selected and disabled_until, are never
\* called, held or logged, their secrets are never sent (the secret of a
\* call is the called row's or the one the endpoint handed in), and they
\* have no say in what the request picks: the
\* credential it starts with is a selected row of (U, P) (none when (U, P)
\* has no selected row), and a rotation either leaves the selection alone or
\* moves it to the first row of (U, P) after the failed one whose own
\* disabled_until is null.
C38_OnlyOwnCredentials ==
    [][/\ \A k \in others :
            /\ is_selected'[k] = is_selected[k]
            /\ disabled_until'[k] = disabled_until[k]
       /\ \A i \in 1..Len(NewRows) : NewRows[i].key_id \notin others
       /\ \A r \in Reqs :
            /\ Called(r) =>
                 /\ NewCall(r).key_id \in keys
                 /\ NewCall(r).secret \in
                        {HeaderSecret, RowSecret(NewCall(r).key_id)}
            /\ current_key_id'[r] \in {None} \cup keys
            /\ (pc[r] = "start" /\ pc'[r] = "loop") =>
                 IF \E k \in keys : is_selected[k]
                 THEN current_key_id'[r] \in keys /\ is_selected[current_key_id'[r]]
                 ELSE current_key_id'[r] = None
            /\ rotations'[r] # rotations[r] =>
                 LET f == current_key_id[r]
                 IN \/ is_selected' = is_selected
                    \/ /\ f \in keys
                       /\ OwnCandidates(f) # {}
                       /\ is_selected' = [[is_selected EXCEPT ![f] = FALSE]
                                             EXCEPT ![OwnNext(f)] = TRUE]
                       /\ current_key_id'[r] \in {f, OwnNext(f)}]_vars

\* the request rotated from its first to its second credential and was
\* answered there, while a selected, unquarantined row of another owner or
\* provider was in the table throughout
C38_Witness ==
    /\ Done(1) /\ result[1].kind = "success"
    /\ Len(calls[1]) = 2
    /\ calls[1][2].key_id # calls[1][1].key_id
    /\ calls[1][2].secret = RowSecret(calls[1][2].key_id)
    /\ \E k \in others : is_selected[k] /\ disabled_until[k] = None

\* the candidate list of a rotation, as the table stands after its step 1
CandidateList == {k \in keys : disabled_until'[k] = None}

====
